---- MODULE Spec2Model ----
(***************************************************************************)
(* Model of examples/audio/ipynb/speaker_recognition_using_cnn.ipynb:      *)
(* noise bank, dataset shuffle/split, noise injection and the Keras        *)
(* training loop with its EarlyStopping and ModelCheckpoint callbacks.     *)
(*                                                                         *)
(* Model parameters are identified by the number of the epoch whose        *)
(* updates produced them (0 = the freshly built model).                    *)
(***************************************************************************)
EXTENDS Bags, Integers, Sequences, FiniteSets, TLC

(* ---------------- bounds of the model ---------------- *)
MaxEpochs == 12
MaxLoss == 2
MaxAcc == 2

MaxFiles == 2
MaxSamples == 5
MaxClips == 11
MaxOffset == 1
MaxAmp == 1
MaxPool == 2
MaxBatch == 2
MaxParallel == 2
MaxStreamEpochs == 2

\* samples per second and per chunk (16000 in the notebook, scaled down here)
SAMPLING_RATE == 2

\* BATCH_SIZE = 128, the validation batch size 32 and the 8 batches of the
\* shuffle buffers (buffer_size=BATCH_SIZE * 8, 32 * 8), scaled down here
BATCH_SIZE == 2
VALID_BATCH_SIZE == 2
SHUFFLE_BATCHES == 1

(* ---------------- program constants ---------------- *)
EPOCHS == 1
PATIENCE == 10
SHUFFLE_SEED == 43
\* VALID_SPLIT = 0.1, as a fraction
VALID_SPLIT_NUM == 1
VALID_SPLIT_DEN == 10
\* SCALE = 0.5, as a fraction
SCALE_NUM == 1
SCALE_DEN == 2

VARIABLES
  pc,                \* the notebook step about to run ("aborted" after an exception)
  error,             \* the exception that ended the run ("" = none)
  noise_files,       \* the .wav files under the noise folder, as decode_wav reads them
  noise_paths,       \* indices of the discovered noise files
  path_idx,          \* position of the loop over noise_paths
  noises,            \* the list of noise chunks
  class_sizes,       \* number of .wav files in each speaker folder, in listing order
  mt,                \* the output stream of the generator seeded with SHUFFLE_SEED
  rng,               \* the RandomState object bound to rng (<<>> = not yet created)
  audio_paths,       \* clip paths (a path is the clip's number in listing order)
  labels,            \* clip labels, parallel to audio_paths
  clips,             \* the (path, label) pairs as listed, before any shuffle
  num_val_samples,
  train_audio_paths, train_labels, valid_audio_paths, valid_labels,
  audio,             \* a batch of waveforms handed to add_noise
  tf_rnd,            \* the noise chunk drawn for each waveform of the batch (1-based)
  mixed,             \* what add_noise returned for the batch
  phase,             \* which dataset pass is under way ("none" = no stream open)
  src,               \* number of paths handed to the parallel path_to_audio map
  decoding,          \* the map's calls in flight, oldest first: [path, done]
  zipped,            \* number of (audio, label) elements Dataset.zip has produced
  buffer,            \* the elements held by Dataset.shuffle
  batching,          \* the batch Dataset.batch is filling
  mapping,           \* batches in the per-batch maps and prefetch, oldest first
  fed,               \* the batch the classifier received last (<<>> = none yet)
  seen,              \* clips delivered since the stream was opened
  seenCount,         \* number of elements delivered since the stream was opened
  status,            \* "Built" | "Running" | "EarlyStopped" | "Completed"
  epochs,            \* epochs= argument of model.fit
  epoch,             \* number of epochs run so far
  weights,           \* parameters held by the in-memory model
  stop_training,     \* model.stop_training
  es_wait,           \* EarlyStopping.wait
  es_best,           \* EarlyStopping.best (<<>> = None)
  es_best_epoch,     \* EarlyStopping.best_epoch (0-based)
  es_best_weights,   \* EarlyStopping.best_weights (<<>> = None)
  es_stopped_epoch,  \* EarlyStopping.stopped_epoch (0-based)
  ck_best,           \* ModelCheckpoint.best (<<>> = None)
  ckpt,              \* parameters stored in model.keras (<<>> = no file)
  evaluated,         \* model.evaluate(valid_ds) has run
  grid,              \* validation results (val_loss, val_accuracy) a run can see
  lossHist,          \* val_loss of every epoch run, in order
  accHist,           \* val_accuracy of every epoch run, in order
  ckptWrites         \* epochs (1-based) at whose end model.keras was written

trainVars == <<status, epochs, epoch, weights, stop_training, es_wait, es_best,
               es_best_epoch, es_best_weights, es_stopped_epoch, ck_best, ckpt,
               evaluated, grid, lossHist, accHist, ckptWrites>>

noiseVars == <<noise_files, noise_paths, path_idx, noises>>
dataVars == <<class_sizes, mt, rng, audio_paths, labels, clips, num_val_samples,
              train_audio_paths, train_labels, valid_audio_paths, valid_labels>>

mixVars == <<audio, tf_rnd, mixed>>

streamVars == <<phase, src, decoding, zipped, buffer, batching, mapping, fed, seen,
                seenCount>>

vars == <<pc, error, noiseVars, dataVars, mixVars, streamVars, trainVars>>

(* ---------------- helpers ---------------- *)
Min(S) == CHOOSE x \in S : \A y \in S : x <= y
Max(S) == CHOOSE x \in S : \A y \in S : x >= y
Range(s) == {s[i] : i \in DOMAIN s}

Results == (1..MaxLoss) \X (1..MaxAcc)
Grids == {g \in SUBSET Results : \E a, b \in Results : g = {a, b}}

(* ---------------- noise bank ---------------- *)
Rates == {SAMPLING_RATE, SAMPLING_RATE + 1}
NoiseFile == [rate : Rates, len : 0..MaxSamples]
NoiseFileSets == UNION {[1..n -> NoiseFile] : n \in 0..MaxFiles}

\* the samples decode_wav returns for file f: every sample is distinct
Samples(f) == [i \in 1..noise_files[f].len |-> f * (MaxSamples + 1) + i]

\* `if not noise_paths`
NoNoiseFoundNever(paths) == FALSE
NoNoiseFound(paths) == paths = <<>>

\* slices = int(sample.shape[0] / SAMPLING_RATE)
SlicesCeil(n) == (n + SAMPLING_RATE - 1) \div SAMPLING_RATE
Slices(n) == n \div SAMPLING_RATE

\* tf.split(value, num): num equal contiguous parts; num < 1 is rejected by the op
TfSplit(value, num) ==
  IF num < 1
    THEN [raised |-> TRUE, parts |-> <<>>]
    ELSE [raised |-> FALSE,
          parts |-> [c \in 1..num |->
                       SubSeq(value, (c - 1) * (Len(value) \div num) + 1,
                                     c * (Len(value) \div num))]]

\* load_noise_sample(path): the chunks, None for a wrong rate, or the exception
load_noise_sample(f) ==
  IF noise_files[f].rate = SAMPLING_RATE
    THEN LET slices == Slices(Len(Samples(f)))
             split == TfSplit(SubSeq(Samples(f), 1, slices * SAMPLING_RATE), slices)
         IN [raised |-> split.raised, none |-> FALSE, sample |-> split.parts]
    ELSE [raised |-> FALSE, none |-> TRUE, sample |-> <<>>]

(* ---------------- clip list, shuffle and split ---------------- *)
Stream == [a : {1, 3}, c : 0..MaxOffset]

\* raw output word number t (t = 1, 2, ...) of the seeded generator
Raw(t) == mt.c + mt.a * t

\* RandomState(seed): a generator at the start of the seed's stream
RandomStateReused(seed) == IF rng = <<>> THEN [seed |-> seed, drawn |-> 0] ELSE rng
RandomState(seed) == [seed |-> seed, drawn |-> 0]

\* smallest 2^j - 1 that is >= max
RECURSIVE MaskFrom(_, _)
MaskFrom(m, max) == IF m >= max THEN m ELSE MaskFrom(2 * m + 1, max)

\* random_interval(max): masked rejection sampling of a value in 0..max;
\* drawn counts the raw words consumed
RECURSIVE RejectionSample(_, _, _)
RejectionSample(max, mask, drawn) ==
  LET value == Raw(drawn + 1) % (mask + 1)
  IN IF value <= max THEN [value |-> value, drawn |-> drawn + 1]
                     ELSE RejectionSample(max, mask, drawn + 1)
random_interval(max, drawn) ==
  IF max = 0 THEN [value |-> 0, drawn |-> drawn]
             ELSE RejectionSample(max, MaskFrom(0, max), drawn)

Swap(x, i, j) == [x EXCEPT ![i] = x[j], ![j] = x[i]]

\* rng.shuffle(x) for a list: for i in reversed(range(1, n)):
\*     j = random_interval(i); x[i], x[j] = x[j], x[i]       (i, j 0-based)
RECURSIVE ShuffleFrom(_, _, _)
ShuffleFrom(x, i, g) ==
  IF i < 1 THEN [x |-> x, rng |-> g]
  ELSE LET r == random_interval(i, g.drawn)
       IN ShuffleFrom(Swap(x, i + 1, r.value + 1), i - 1, [g EXCEPT !.drawn = r.drawn])
shuffle(x, g) == ShuffleFrom(x, Len(x) - 1, g)

\* the loop over class_names: audio_paths += paths; labels += [label] * len(paths)
RECURSIVE ListFrom(_, _, _, _)
ListFrom(sizes, c, paths, labs) ==
  IF c > Len(sizes) THEN [audio_paths |-> paths, labels |-> labs]
  ELSE ListFrom(sizes, c + 1,
                paths \o [i \in 1..sizes[c] |-> Len(paths) + i],
                labs \o [i \in 1..sizes[c] |-> c - 1])

\* Python slice bounds: a negative index counts from the end, all are clipped
PyIndex(i, n) == IF i < 0 THEN (IF i + n < 0 THEN 0 ELSE i + n)
                          ELSE (IF i > n THEN n ELSE i)
\* x[:stop]
SliceTo(x, stop) == SubSeq(x, 1, PyIndex(stop, Len(x)))
\* x[start:]
SliceFrom(x, start) == SubSeq(x, PyIndex(start, Len(x)) + 1, Len(x))

\* int(VALID_SPLIT * len(audio_paths)); the double product 0.1 * n truncates to
\* n div 10 for every list length a run can hold
NumVal(n) == (VALID_SPLIT_NUM * n) \div VALID_SPLIT_DEN

ClassSizes == {cs \in [1..2 -> 0..MaxClips] : cs[1] + cs[2] <= MaxClips}
Zip(a, b) == {<<a[i], b[i]>> : i \in DOMAIN a}

(* ---------------- noise injection ---------------- *)
Amps == (0 - MaxAmp)..MaxAmp
Waveform == [1..SAMPLING_RATE -> Amps]
Batches == UNION {[1..n -> Waveform] : n \in 1..MaxBatch}

Abs(x) == IF x < 0 THEN 0 - x ELSE x
\* tf.math.reduce_max over the samples of one waveform
reduce_max(w) == Max(Range(w))
PeakAbs(w) == Max({Abs(w[i]) : i \in DOMAIN w})

\* add_noise for one waveform w and the chunk n drawn for it, in exact
\* arithmetic: sample i of the result is num[i] / den, where
\*   prop = reduce_max(w) / reduce_max(n),   result = w + n * prop * scale;
\* den = 0 stands for the division by zero (inf or nan in every sample)
add_noise_one(w, n) ==
  [num |-> [i \in DOMAIN w |->
              w[i] * reduce_max(n) * SCALE_DEN + n[i] * reduce_max(w) * SCALE_NUM],
   den |-> reduce_max(n) * SCALE_DEN]

(* ---------------- callbacks ---------------- *)
\* The notebook imports keras with KERAS_BACKEND set (Keras 3): EarlyStopping
\* records best_weights in on_epoch_end and puts them back in on_train_end.
\* EarlyStopping(patience=10, restore_best_weights=True): monitor defaults to
\* "val_loss", mode auto -> min, min_delta 0, baseline None.
EsIsImprovement(current, best) == best = <<>> \/ current < best[1]

\* ModelCheckpoint(monitor="val_accuracy", save_best_only=True): mode auto -> max.
CkIsImprovementOrTie(current, best) == best = <<>> \/ current >= best[1]
CkIsImprovement(current, best) == best = <<>> \/ current > best[1]

\* patience test of EarlyStopping.on_epoch_end (epoch is the 0-based index)
EsPatienceExceededStrict(wait, e0) == wait > PATIENCE /\ e0 > 0
EsPatienceExceeded(wait, e0) == wait >= PATIENCE /\ e0 > 0

\* the epoch loop of model.fit goes on while epochs remain and no callback
\* has set stop_training
LoopContinuesOffByOne == ~stop_training /\ epoch <= epochs
LoopContinues == ~stop_training /\ epoch < epochs

\* EarlyStopping.on_train_end: the parameters the model holds after fit
RestoredKeepLast(w, best_weights) == w
Restored(w, best_weights) == IF best_weights # <<>> THEN best_weights[1] ELSE w

(* ---------------- the notebook before training ---------------- *)
\* the noise and clip variables of a run that has not listed anything yet
NothingListed ==
  /\ noise_paths = <<>>
  /\ path_idx = 1
  /\ noises = <<>>
  /\ class_sizes = <<>>
  /\ rng = <<>>
  /\ audio_paths = <<>>
  /\ labels = <<>>
  /\ clips = {}
  /\ num_val_samples = 0
  /\ train_audio_paths = <<>>
  /\ train_labels = <<>>
  /\ valid_audio_paths = <<>>
  /\ valid_labels = <<>>

\* no batch has gone through add_noise
NothingMixed ==
  /\ audio = <<>>
  /\ tf_rnd = <<>>
  /\ mixed = <<>>

\* no dataset is being iterated
StreamsClosed ==
  /\ phase = "none"
  /\ src = 0
  /\ decoding = <<>>
  /\ zipped = 0
  /\ buffer = {}
  /\ batching = EmptyBag
  /\ mapping = <<>>
  /\ fed = <<>>
  /\ seen = {}
  /\ seenCount = 0

\* the training variables before model.fit
NotTrained ==
  /\ status = "Built"
  /\ epoch = 0
  /\ weights = 0
  /\ stop_training = FALSE
  /\ es_wait = 0
  /\ es_best = <<>>
  /\ es_best_epoch = 0
  /\ es_best_weights = <<>>
  /\ es_stopped_epoch = 0
  /\ ck_best = <<>>
  /\ ckpt = <<>>
  /\ evaluated = FALSE
  /\ lossHist = <<>>
  /\ accHist = <<>>
  /\ ckptWrites = {}

\* "Get the list of all noise files": raise RuntimeError when there is none
DiscoverNoise ==
  /\ pc = "noise_paths"
  /\ noise_paths' = [f \in DOMAIN noise_files |-> f]
  /\ IF NoNoiseFound(noise_paths')
       THEN pc' = "aborted" /\ error' = "RuntimeError"
       ELSE pc' = "load_noise" /\ error' = error
  /\ UNCHANGED <<noise_files, path_idx, noises, dataVars, mixVars, streamVars, trainVars>>

\* one iteration of `for path in noise_paths`: load_noise_sample, then
\* `if sample: noises.extend(sample)`
LoadNoiseSample ==
  /\ pc = "load_noise"
  /\ path_idx <= Len(noise_paths)
  /\ LET r == load_noise_sample(noise_paths[path_idx])
     IN IF r.raised
          THEN /\ pc' = "aborted"
               /\ error' = "InvalidArgumentError"
               /\ UNCHANGED <<path_idx, noises>>
          ELSE /\ noises' = IF ~r.none /\ r.sample # <<>> THEN noises \o r.sample ELSE noises
               /\ path_idx' = path_idx + 1
               /\ pc' = IF path_idx = Len(noise_paths) THEN "stack" ELSE "load_noise"
               /\ error' = error
  /\ UNCHANGED <<noise_files, noise_paths, dataVars, mixVars, streamVars, trainVars>>

\* noises = tf.stack(noises), then the print that reads noises.shape[1]:
\* an empty list stacks to a tensor of shape (0,), which has no second axis
StackNoises ==
  /\ pc = "stack"
  /\ IF noises = <<>>
       THEN pc' = "aborted" /\ error' = "IndexError"
       ELSE pc' = "list_clips" /\ error' = error
  /\ UNCHANGED <<noiseVars, dataVars, mixVars, streamVars, trainVars>>

\* the loop over class_names that fills audio_paths and labels
ListClips(sizes) ==
  /\ pc = "list_clips"
  /\ class_sizes' = sizes
  /\ LET l == ListFrom(sizes, 1, <<>>, <<>>)
     IN /\ audio_paths' = l.audio_paths
        /\ labels' = l.labels
        /\ clips' = Zip(l.audio_paths, l.labels)
  /\ pc' = "shuffle_paths"
  /\ UNCHANGED <<error, noiseVars, mt, rng, num_val_samples, train_audio_paths,
                 train_labels, valid_audio_paths, valid_labels, mixVars, streamVars, trainVars>>

\* rng = np.random.RandomState(SHUFFLE_SEED); rng.shuffle(audio_paths)
ShufflePaths ==
  /\ pc = "shuffle_paths"
  /\ LET s == shuffle(audio_paths, RandomState(SHUFFLE_SEED))
     IN audio_paths' = s.x /\ rng' = s.rng
  /\ pc' = "shuffle_labels"
  /\ UNCHANGED <<error, noiseVars, class_sizes, mt, labels, clips, num_val_samples,
                 train_audio_paths, train_labels, valid_audio_paths, valid_labels,
                 mixVars, streamVars, trainVars>>

\* rng = np.random.RandomState(SHUFFLE_SEED); rng.shuffle(labels)
ShuffleLabels ==
  /\ pc = "shuffle_labels"
  /\ LET s == shuffle(labels, RandomState(SHUFFLE_SEED))
     IN labels' = s.x /\ rng' = s.rng
  /\ pc' = "split"
  /\ UNCHANGED <<error, noiseVars, class_sizes, mt, audio_paths, clips,
                 num_val_samples, train_audio_paths, train_labels,
                 valid_audio_paths, valid_labels, mixVars, streamVars, trainVars>>

\* "Split into training and validation"
SplitTrainValid ==
  /\ pc = "split"
  /\ num_val_samples' = NumVal(Len(audio_paths))
  /\ train_audio_paths' = SliceTo(audio_paths, -num_val_samples')
  /\ train_labels' = SliceTo(labels, -num_val_samples')
  /\ valid_audio_paths' = SliceFrom(audio_paths, -num_val_samples')
  /\ valid_labels' = SliceFrom(labels, -num_val_samples')
  /\ pc' = "train"
  /\ UNCHANGED <<error, noiseVars, class_sizes, mt, rng, audio_paths, labels, clips,
                 mixVars, streamVars, trainVars>>

(* ---------------- training ---------------- *)
\* a run that has reached model.fit: one noise file of one chunk, and
\* VALID_SPLIT_DEN clips of one speaker, listed, shuffled and split
TrainInit ==
  /\ pc = "train"
  /\ error = ""
  /\ noise_files = <<[rate |-> SAMPLING_RATE, len |-> SAMPLING_RATE]>>
  /\ noise_paths = <<1>>
  /\ path_idx = 2
  /\ noises = load_noise_sample(1).sample
  /\ class_sizes = <<VALID_SPLIT_DEN, 0>>
  /\ mt = [a |-> 1, c |-> 0]
  /\ rng = shuffle(ListFrom(class_sizes, 1, <<>>, <<>>).labels, RandomState(SHUFFLE_SEED)).rng
  /\ audio_paths = shuffle(ListFrom(class_sizes, 1, <<>>, <<>>).audio_paths, RandomState(SHUFFLE_SEED)).x
  /\ labels = shuffle(ListFrom(class_sizes, 1, <<>>, <<>>).labels, RandomState(SHUFFLE_SEED)).x
  /\ clips = Zip(ListFrom(class_sizes, 1, <<>>, <<>>).audio_paths, ListFrom(class_sizes, 1, <<>>, <<>>).labels)
  /\ num_val_samples = NumVal(Len(audio_paths))
  /\ train_audio_paths = SliceTo(audio_paths, -num_val_samples)
  /\ train_labels = SliceTo(labels, -num_val_samples)
  /\ valid_audio_paths = SliceFrom(audio_paths, -num_val_samples)
  /\ valid_labels = SliceFrom(labels, -num_val_samples)
  /\ epochs \in {EPOCHS, MaxEpochs}
  /\ grid \in Grids
  /\ NothingMixed
  /\ StreamsClosed
  /\ NotTrained

\* model.fit(...) entry: stop_training reset, callbacks' on_train_begin
on_train_begin ==
  /\ pc = "train"
  /\ status = "Built"
  /\ status' = "Running"
  /\ stop_training' = FALSE
  /\ es_wait' = 0
  /\ es_stopped_epoch' = 0
  /\ es_best' = <<>>
  /\ es_best_weights' = <<>>
  /\ es_best_epoch' = 0
  /\ UNCHANGED <<epochs, epoch, weights, ck_best, ckpt, evaluated, grid,
                 lossHist, accHist, ckptWrites>>
  /\ UNCHANGED <<pc, error, noiseVars, dataVars, mixVars>>

FitBegin == on_train_begin /\ UNCHANGED streamVars

\* the end of one iteration of the epoch loop of model.fit: the parameters
\* are those of this epoch's training pass, the validation pass gave
\* val_loss and val_accuracy; on_epoch_end of [earlystopping_cb, mdlcheckpoint_cb]
on_epoch_end(val_loss, val_accuracy) ==
  /\ status = "Running"
  /\ LoopContinues
  /\ LET e0 == epoch                 \* 0-based index handed to the callbacks
         w == epoch + 1              \* parameters after this epoch's updates
         bw0 == IF es_best_weights = <<>> THEN <<w>> ELSE es_best_weights
         be0 == IF es_best_weights = <<>> THEN e0 ELSE es_best_epoch
         wait1 == es_wait + 1
         improved == EsIsImprovement(val_loss, es_best)
         save == CkIsImprovement(val_accuracy, ck_best)
     IN /\ epoch' = epoch + 1
        /\ weights' = w
        /\ lossHist' = Append(lossHist, val_loss)
        /\ accHist' = Append(accHist, val_accuracy)
        \* EarlyStopping.on_epoch_end
        /\ IF improved
             THEN /\ es_best' = <<val_loss>>
                  /\ es_best_epoch' = e0
                  /\ es_best_weights' = <<w>>
                  /\ es_wait' = 0
                  /\ UNCHANGED <<es_stopped_epoch, stop_training>>
             ELSE /\ es_best' = es_best
                  /\ es_best_epoch' = be0
                  /\ es_best_weights' = bw0
                  /\ es_wait' = wait1
                  /\ IF EsPatienceExceeded(wait1, e0)
                       THEN es_stopped_epoch' = e0 /\ stop_training' = TRUE
                       ELSE UNCHANGED <<es_stopped_epoch, stop_training>>
        \* ModelCheckpoint.on_epoch_end
        /\ IF save
             THEN /\ ck_best' = <<val_accuracy>>
                  /\ ckpt' = <<w>>
                  /\ ckptWrites' = ckptWrites \cup {epoch + 1}
             ELSE UNCHANGED <<ck_best, ckpt, ckptWrites>>
  /\ UNCHANGED <<status, epochs, evaluated, grid>>
  /\ UNCHANGED <<pc, error, noiseVars, dataVars, mixVars>>

\* one iteration of the epoch loop of model.fit taken as a whole: the training
\* pass, the validation pass, then on_epoch_end
RunEpoch(val_loss, val_accuracy) ==
  on_epoch_end(val_loss, val_accuracy) /\ UNCHANGED streamVars

\* leaving the epoch loop (break on stop_training, or the epochs are used up)
\* and EarlyStopping.on_train_end, which puts best_weights back
on_train_end ==
  /\ status = "Running"
  /\ ~LoopContinues
  /\ status' = IF stop_training THEN "EarlyStopped" ELSE "Completed"
  /\ weights' = Restored(weights, es_best_weights)
  /\ UNCHANGED <<epochs, epoch, stop_training, es_wait, es_best, es_best_epoch,
                 es_best_weights, es_stopped_epoch, ck_best, ckpt, evaluated,
                 grid, lossHist, accHist, ckptWrites>>
  /\ UNCHANGED <<pc, error, noiseVars, dataVars, mixVars>>

FitEnd == on_train_end /\ UNCHANGED streamVars

\* print(model.evaluate(valid_ds)): the result is reported
evaluate_end ==
  /\ pc = "train"
  /\ status \in {"EarlyStopped", "Completed"}
  /\ ~evaluated
  /\ evaluated' = TRUE
  /\ pc' = "done"
  /\ UNCHANGED <<error, noiseVars, dataVars, mixVars>>
  /\ UNCHANGED <<status, epochs, epoch, weights, stop_training, es_wait, es_best,
                 es_best_epoch, es_best_weights, es_stopped_epoch, ck_best, ckpt,
                 grid, lossHist, accHist, ckptWrites>>

\* model.evaluate(valid_ds) taken as a whole
Evaluate == evaluate_end /\ UNCHANGED streamVars

TrainNext ==
  \/ FitBegin
  \/ \E r \in grid : RunEpoch(r[1], r[2])
  \/ FitEnd
  \/ Evaluate

SpecTrain == TrainInit /\ [][TrainNext]_vars
FairSpecTrain == SpecTrain /\ WF_vars(TrainNext)

(* ---------------- the whole notebook ---------------- *)
\* inputs of the whole-notebook runs: enough clips for both subsets, one
\* validation result (EPOCHS is 1)
PipelineClassSizes == {cs \in ClassSizes : cs[1] + cs[2] = VALID_SPLIT_DEN /\ cs[2] <= 1}
PipelineStreams == {g \in Stream : g.c = 0}

Init ==
  /\ pc = "noise_paths"
  /\ error = ""
  /\ noise_files \in NoiseFileSets
  /\ mt \in PipelineStreams
  /\ epochs = EPOCHS
  /\ grid \in {{r} : r \in Results}
  /\ NothingListed
  /\ NothingMixed
  /\ StreamsClosed
  /\ NotTrained

Next ==
  \/ DiscoverNoise
  \/ LoadNoiseSample
  \/ StackNoises
  \/ \E cs \in PipelineClassSizes : ListClips(cs)
  \/ ShufflePaths
  \/ ShuffleLabels
  \/ SplitTrainValid
  \/ FitBegin
  \/ \E r \in grid : RunEpoch(r[1], r[2])
  \/ FitEnd
  \/ Evaluate

Spec == Init /\ [][Next]_vars

(* ---------------- the dataset streams ---------------- *)
PassPhases == {"train_pass", "valid_pass", "eval_pass", "demo"}

\* the dataset a pass iterates: train_ds in the training pass of an epoch,
\* valid_ds in its validation pass and in model.evaluate, test_ds in the demo
DsOf(ph) == IF ph = "train_pass" THEN "train" ELSE IF ph = "demo" THEN "test" ELSE "valid"

\* paths_and_labels_to_dataset(...) arguments of each dataset
PathsOf(d) == IF d = "train" THEN train_audio_paths ELSE valid_audio_paths
LabelsOf(d) == IF d = "train" THEN train_labels ELSE valid_labels

\* .batch(...) and .shuffle(buffer_size=...) of each dataset
BatchOf(d) == IF d = "valid" THEN VALID_BATCH_SIZE ELSE BATCH_SIZE
BufferOf(d) == BatchOf(d) * SHUFFLE_BATCHES

\* the per-batch maps of each dataset, in the order they are chained
StagesOfNoiseLast(d) ==
  IF d = "train" THEN <<"audio_to_fft", "add_noise">>
  ELSE IF d = "valid" THEN <<"audio_to_fft">>
  ELSE <<"add_noise">>
StagesOf(d) ==
  IF d = "train" THEN <<"add_noise", "audio_to_fft">>
  ELSE IF d = "valid" THEN <<"audio_to_fft">>
  ELSE <<"add_noise">>

\* what the consumer does to a batch before the classifier sees it: the demo
\* loop calls audio_to_fft itself, fit and evaluate hand the batch over as it is
ConsumerStages(d) == IF d = "test" THEN <<"audio_to_fft">> ELSE <<>>

\* the calls of a parallel map whose result may be handed on next: map keeps
\* the order of its input, so only the oldest call, once it is done
NextReadyAnyOrder(calls) == {i \in DOMAIN calls : calls[i].done}
NextReady(calls) == IF calls # <<>> /\ calls[1].done THEN {1} ELSE {}

\* what stays in the shuffle buffer once element e was handed on
BufferAfterKeep(buf, e) == buf
BufferAfter(buf, e) == buf \ {e}

Remove(q, i) == [j \in 1..(Len(q) - 1) |-> IF j < i THEN q[j] ELSE q[j + 1]]

\* every element of the dataset has been produced and handed on
Exhausted(d) ==
  /\ src = Len(PathsOf(d))
  /\ decoding = <<>>
  /\ buffer = {}
  /\ batching = EmptyBag
  /\ mapping = <<>>

\* a fresh iterator over a dataset
OpenStream ==
  /\ src' = 0
  /\ decoding' = <<>>
  /\ zipped' = 0
  /\ buffer' = {}
  /\ batching' = EmptyBag
  /\ mapping' = <<>>
  /\ fed' = <<>>
  /\ seen' = {}
  /\ seenCount' = 0

\* path_ds.map(path_to_audio, num_parallel_calls=AUTOTUNE): a call is started
DecodeStart ==
  /\ phase \in PassPhases
  /\ src < Len(PathsOf(DsOf(phase)))
  /\ Len(decoding) < MaxParallel
  /\ decoding' = Append(decoding, [path |-> PathsOf(DsOf(phase))[src + 1], done |-> FALSE])
  /\ src' = src + 1
  /\ UNCHANGED <<pc, error, noiseVars, dataVars, mixVars, trainVars, phase, zipped,
                 buffer, batching, mapping, fed, seen, seenCount>>

\* a call of path_to_audio returns; calls return in any order
DecodeFinish ==
  /\ phase \in PassPhases
  /\ \E i \in DOMAIN decoding :
        /\ ~decoding[i].done
        /\ decoding' = [decoding EXCEPT ![i].done = TRUE]
  /\ UNCHANGED <<pc, error, noiseVars, dataVars, mixVars, trainVars, phase, src, zipped,
                 buffer, batching, mapping, fed, seen, seenCount>>

\* Dataset.zip((audio_ds, label_ds)) pairs the next audio with the next label
\* and Dataset.shuffle takes the element into its buffer
ZipNext ==
  /\ phase \in PassPhases
  /\ Cardinality(buffer) < BufferOf(DsOf(phase))
  /\ \E i \in NextReady(decoding) :
        /\ buffer' = buffer \cup {[clip |-> decoding[i].path,
                                   label |-> LabelsOf(DsOf(phase))[zipped + 1]]}
        /\ decoding' = Remove(decoding, i)
  /\ zipped' = zipped + 1
  /\ UNCHANGED <<pc, error, noiseVars, dataVars, mixVars, trainVars, phase, src,
                 batching, mapping, fed, seen, seenCount>>

\* Dataset.shuffle hands a random element of its full buffer (or of what is
\* left of it once the input is used up) to Dataset.batch
ShuffleNext ==
  /\ phase \in PassPhases
  /\ buffer # {}
  /\ Cardinality(buffer) = BufferOf(DsOf(phase)) \/ zipped = Len(PathsOf(DsOf(phase)))
  /\ BagCardinality(batching) < BatchOf(DsOf(phase))
  /\ \E e \in buffer :
        /\ batching' = batching (+) SetToBag({e})
        /\ buffer' = BufferAfter(buffer, e)
  /\ UNCHANGED <<pc, error, noiseVars, dataVars, mixVars, trainVars, phase, src, decoding,
                 zipped, mapping, fed, seen, seenCount>>

\* Dataset.batch closes a batch: it is full, or it holds the last elements.
\* A batch is the bag of its rows, a waveform with its label: nothing in the
\* notebook reorders the rows of a batch or takes a waveform from its label
BatchNext ==
  /\ phase \in PassPhases
  /\ batching # EmptyBag
  /\ \/ BagCardinality(batching) = BatchOf(DsOf(phase))
     \/ zipped = Len(PathsOf(DsOf(phase))) /\ decoding = <<>> /\ buffer = {}
  /\ Len(mapping) < MaxParallel
  /\ mapping' = Append(mapping, [items |-> batching, stages |-> <<>>])
  /\ batching' = EmptyBag
  /\ UNCHANGED <<pc, error, noiseVars, dataVars, mixVars, trainVars, phase, src, decoding,
                 zipped, buffer, fed, seen, seenCount>>

\* the next .map(..., num_parallel_calls=AUTOTUNE) of the chain is applied to
\* one of the batches in flight; batches advance in any order
MapNext ==
  /\ phase \in PassPhases
  /\ \E i \in DOMAIN mapping :
        /\ Len(mapping[i].stages) < Len(StagesOf(DsOf(phase)))
        /\ mapping' = [mapping EXCEPT ![i].stages =
                         Append(@, StagesOf(DsOf(phase))[Len(@) + 1])]
  /\ UNCHANGED <<pc, error, noiseVars, dataVars, mixVars, trainVars, phase, src, decoding,
                 zipped, buffer, batching, fed, seen, seenCount>>

\* the consumer takes the oldest batch, once all its maps are done, and gives
\* it to the classifier: a train step, a test step or model.predict; the demo
\* loop is `for ... in test_ds.take(1)` and ends with its first batch
Deliver ==
  /\ phase \in PassPhases
  /\ mapping # <<>>
  /\ Len(mapping[1].stages) = Len(StagesOf(DsOf(phase)))
  /\ fed' = [ds |-> DsOf(phase), by |-> phase, items |-> mapping[1].items,
             stages |-> mapping[1].stages \o ConsumerStages(DsOf(phase))]
  /\ seen' = seen \cup {row.clip : row \in BagToSet(mapping[1].items)}
  /\ seenCount' = seenCount + BagCardinality(mapping[1].items)
  /\ mapping' = Tail(mapping)
  /\ phase' = IF phase = "demo" THEN "end" ELSE phase
  /\ UNCHANGED <<pc, error, noiseVars, dataVars, mixVars, trainVars, src, decoding,
                 zipped, buffer, batching>>

\* model.fit starts and opens train_ds for the first epoch
StreamFitBegin ==
  /\ phase = "none"
  /\ on_train_begin
  /\ phase' = "train_pass"
  /\ OpenStream

\* train_ds is used up: the epoch goes on with the validation pass
TrainPassEnd ==
  /\ phase = "train_pass"
  /\ Exhausted("train")
  /\ phase' = "valid_pass"
  /\ OpenStream
  /\ UNCHANGED <<pc, error, noiseVars, dataVars, mixVars, trainVars>>

\* valid_ds is used up: on_epoch_end, then the next epoch or the end of fit
StreamEpochEnd ==
  /\ phase = "valid_pass"
  /\ Exhausted("valid")
  /\ \E r \in grid : on_epoch_end(r[1], r[2])
  /\ phase' = IF LoopContinues' THEN "train_pass" ELSE "fit_end"
  /\ OpenStream

\* model.fit returns; model.evaluate(valid_ds) opens valid_ds again
StreamFitEnd ==
  /\ phase = "fit_end"
  /\ on_train_end
  /\ phase' = "eval_pass"
  /\ OpenStream

\* model.evaluate has used up valid_ds; the demo cell builds and opens test_ds
StreamEvaluate ==
  /\ phase = "eval_pass"
  /\ Exhausted("valid")
  /\ evaluate_end
  /\ phase' = "demo"
  /\ OpenStream

\* inputs of the runs that follow the streams: VALID_SPLIT_DEN clips of two speakers
StreamClassSizes == {cs \in ClassSizes : cs[1] + cs[2] = VALID_SPLIT_DEN /\ cs[2] \in {1, cs[1]}}

\* a run that has reached model.fit
StreamInit ==
  /\ pc = "train"
  /\ error = ""
  /\ noise_files = <<[rate |-> SAMPLING_RATE, len |-> SAMPLING_RATE]>>
  /\ noise_paths = <<1>>
  /\ path_idx = 2
  /\ noises = load_noise_sample(1).sample
  /\ class_sizes \in StreamClassSizes
  /\ mt = [a |-> 1, c |-> 0]
  /\ rng = shuffle(ListFrom(class_sizes, 1, <<>>, <<>>).labels, RandomState(SHUFFLE_SEED)).rng
  /\ audio_paths = shuffle(ListFrom(class_sizes, 1, <<>>, <<>>).audio_paths, RandomState(SHUFFLE_SEED)).x
  /\ labels = shuffle(ListFrom(class_sizes, 1, <<>>, <<>>).labels, RandomState(SHUFFLE_SEED)).x
  /\ clips = Zip(ListFrom(class_sizes, 1, <<>>, <<>>).audio_paths, ListFrom(class_sizes, 1, <<>>, <<>>).labels)
  /\ num_val_samples = NumVal(Len(audio_paths))
  /\ train_audio_paths = SliceTo(audio_paths, -num_val_samples)
  /\ train_labels = SliceTo(labels, -num_val_samples)
  /\ valid_audio_paths = SliceFrom(audio_paths, -num_val_samples)
  /\ valid_labels = SliceFrom(labels, -num_val_samples)
  /\ epochs \in {EPOCHS, MaxStreamEpochs}
  /\ grid = {<<1, 1>>}
  /\ NothingMixed
  /\ StreamsClosed
  /\ NotTrained

StreamNext ==
  \/ StreamFitBegin
  \/ DecodeStart
  \/ DecodeFinish
  \/ ZipNext
  \/ ShuffleNext
  \/ BatchNext
  \/ MapNext
  \/ Deliver
  \/ TrainPassEnd
  \/ StreamEpochEnd
  \/ StreamFitEnd
  \/ StreamEvaluate

SpecStream == StreamInit /\ [][StreamNext]_vars

(* ---------------- clip list, shuffle and split alone ---------------- *)
\* a run that has built its noise pool and is about to list the clips
SplitInit ==
  /\ pc = "list_clips"
  /\ error = ""
  /\ noise_files = <<[rate |-> SAMPLING_RATE, len |-> SAMPLING_RATE]>>
  /\ noise_paths = <<1>>
  /\ path_idx = 2
  /\ noises = load_noise_sample(1).sample
  /\ class_sizes = <<>>
  /\ mt \in Stream
  /\ rng = <<>>
  /\ audio_paths = <<>>
  /\ labels = <<>>
  /\ clips = {}
  /\ num_val_samples = 0
  /\ train_audio_paths = <<>>
  /\ train_labels = <<>>
  /\ valid_audio_paths = <<>>
  /\ valid_labels = <<>>
  /\ epochs = EPOCHS
  /\ grid \in {{r} : r \in Results}
  /\ NothingMixed
  /\ StreamsClosed
  /\ NotTrained

SplitNext ==
  \/ \E cs \in ClassSizes : ListClips(cs)
  \/ ShufflePaths
  \/ ShuffleLabels
  \/ SplitTrainValid

SpecSplit == SplitInit /\ [][SplitNext]_vars

(* ---------------- noise injection alone ---------------- *)
\* a noise pool and a batch of waveforms, about to go through add_noise
MixInit ==
  /\ pc = "add_noise"
  /\ error = ""
  /\ noise_files = <<>>
  /\ noise_paths = <<>>
  /\ path_idx = 1
  /\ noises \in UNION {[1..n -> Waveform] : n \in 1..MaxPool}
  /\ class_sizes = <<>>
  /\ mt = [a |-> 1, c |-> 0]
  /\ rng = <<>>
  /\ audio_paths = <<>>
  /\ labels = <<>>
  /\ clips = {}
  /\ num_val_samples = 0
  /\ train_audio_paths = <<>>
  /\ train_labels = <<>>
  /\ valid_audio_paths = <<>>
  /\ valid_labels = <<>>
  /\ audio \in Batches
  /\ tf_rnd = <<>>
  /\ mixed = <<>>
  /\ StreamsClosed
  /\ epochs = EPOCHS
  /\ grid = {<<1, 1>>}
  /\ NotTrained

\* add_noise(audio, noises, scale=SCALE): one chunk drawn per waveform
AddNoise ==
  /\ pc = "add_noise"
  /\ \E rnd \in [DOMAIN audio -> DOMAIN noises] :
        /\ tf_rnd' = rnd
        /\ mixed' = [b \in DOMAIN audio |-> add_noise_one(audio[b], noises[rnd[b]])]
  /\ pc' = "mixed"
  /\ UNCHANGED <<error, noiseVars, dataVars, audio, streamVars, trainVars>>

MixNext == AddNoise

SpecMix == MixInit /\ [][MixNext]_vars

(* ======================= training properties ======================= *)
Terminal == {"EarlyStopped", "Completed"}
Prefix(h, k) == {h[j] : j \in 1..k}

\* epoch k of history h did not go below the lowest value of the epochs before it
NoNewLow(h, k) == k > 1 /\ h[k] >= Min(Prefix(h, k - 1))
\* epoch k of history h did not go above the highest value of the epochs before it
NoNewHigh(h, k) == k > 1 /\ h[k] <= Max(Prefix(h, k - 1))

\* the last PATIENCE epochs of the run all failed to improve
LossStale == /\ Len(lossHist) >= PATIENCE
             /\ \A k \in (Len(lossHist) - PATIENCE + 1)..Len(lossHist) : NoNewLow(lossHist, k)
AccStale == /\ Len(accHist) >= PATIENCE
            /\ \A k \in (Len(accHist) - PATIENCE + 1)..Len(accHist) : NoNewHigh(accHist, k)

\* earliest epoch with the lowest validation loss / highest validation accuracy
FirstLowest(h) == CHOOSE k \in DOMAIN h : \A j \in DOMAIN h : h[k] < h[j] \/ (h[k] = h[j] /\ k <= j)
FirstHighest(h) == CHOOSE k \in DOMAIN h : \A j \in DOMAIN h : h[k] > h[j] \/ (h[k] = h[j] /\ k <= j)

\* C1 (as stated): training is halted exactly when validation accuracy has
\* failed to improve on its best value for PATIENCE consecutive epochs.
C1_HaltsOnStaleAccuracy == stop_training <=> AccStale

\* C1 (amended): training is halted exactly when validation loss has failed to
\* go below its lowest value for PATIENCE consecutive epochs, never earlier; an
\* early-stopped run ends PATIENCE epochs after the epoch of the lowest loss.
C1_HaltsOnStaleLoss ==
  /\ stop_training <=> LossStale
  /\ status = "EarlyStopped" => epoch = FirstLowest(lossHist) + PATIENCE

\* the loss reached its lowest value at epoch 2 and the run was halted at epoch 12
C1_Witness ==
  /\ status = "EarlyStopped"
  /\ Len(lossHist) = PATIENCE + 2
  /\ lossHist[2] < lossHist[1]
  /\ epoch = PATIENCE + 2

\* C2 (as stated): after early stopping the model holds the parameters of the
\* epoch with the best validation accuracy, the epoch the checkpoint holds.
C2_RestoresBestAccuracy ==
  status = "EarlyStopped" =>
     /\ weights = FirstHighest(accHist)
     /\ ckpt = <<weights>>

\* C2 (amended): after early stopping the model holds the parameters of the
\* earliest epoch with the lowest validation loss, not those of the last epoch.
C2_RestoresLowestLoss ==
  status = "EarlyStopped" =>
     /\ weights = FirstLowest(lossHist)
     /\ weights # epoch

\* an early-stopped run whose restored parameters are not the checkpointed ones
C2_Witness ==
  /\ status = "EarlyStopped"
  /\ weights = FirstLowest(lossHist)
  /\ ckpt # <<weights>>

\* C3: the checkpoint file is written at the end of exactly those epochs whose
\* validation accuracy is strictly above that of every earlier epoch, so it
\* always holds the parameters of the earliest epoch with the highest accuracy.
C3_CheckpointStrictBest ==
  /\ ckptWrites = {k \in DOMAIN accHist : ~NoNewHigh(accHist, k)}
  /\ accHist # <<>> => ckpt = <<FirstHighest(accHist)>>
  /\ accHist = <<>> => ckpt = <<>>

\* epoch 2 set a new best accuracy, epoch 3 tied it and left the file alone
C3_Witness ==
  /\ Len(accHist) >= 3
  /\ accHist[2] > accHist[1]
  /\ accHist[3] = accHist[2]
  /\ ckpt = <<2>>
  /\ 3 \notin ckptWrites

\* C4: every run reaches a terminal state; a Completed run ran the configured
\* number of epochs, an EarlyStopped run was halted by the patience test; once
\* terminal, the state and the epoch count stay; never more than epochs epochs.
C4_Terminates ==
  /\ <>(status \in Terminal)
  /\ [](epoch <= epochs)
  /\ [](status = "Completed" => epoch = epochs /\ ~stop_training)
  /\ [](status = "EarlyStopped" => stop_training /\ es_wait >= PATIENCE)
  /\ [][(status \in Terminal) => (<<status, epoch, lossHist>>' = <<status, epoch, lossHist>>)]_vars

\* a run of more than PATIENCE epochs that used them all up and was evaluated
C4_Witness ==
  /\ status = "Completed"
  /\ epoch = epochs
  /\ epochs > PATIENCE
  /\ evaluated

(* ======================= dataset properties ======================= *)
\* C5 (as stated): the validation set has floor(VALID_SPLIT * total) clips and
\* the training set has the rest.
C5_SplitSizes ==
  pc = "train" =>
     /\ Len(valid_audio_paths) = (VALID_SPLIT_NUM * Len(audio_paths)) \div VALID_SPLIT_DEN
     /\ Len(train_audio_paths) = Len(audio_paths) - Len(valid_audio_paths)
     /\ Len(valid_labels) = Len(valid_audio_paths)
     /\ Len(train_labels) = Len(train_audio_paths)

\* C6: after the two seeded shuffles every path stands at the index of the
\* label it was listed with, and so it does in the train and validation slices.
C6_ShuffleKeepsPairs ==
  pc \in {"split", "train"} =>
     /\ Len(audio_paths) = Len(labels)
     /\ Zip(audio_paths, labels) = clips
     /\ Len(train_audio_paths) = Len(train_labels)
     /\ Len(valid_audio_paths) = Len(valid_labels)
     /\ Zip(train_audio_paths, train_labels) \subseteq clips
     /\ Zip(valid_audio_paths, valid_labels) \subseteq clips

\* a shuffle that moved clips of two speakers, sliced into two non-empty subsets
C6_Witness ==
  /\ pc = "train"
  /\ \E i \in DOMAIN audio_paths : audio_paths[i] # i
  /\ Range(train_labels) = {0, 1}
  /\ train_audio_paths # <<>>
  /\ valid_audio_paths # <<>>
  /\ Zip(train_audio_paths, train_labels) \subseteq clips

(* ======================= noise bank properties ======================= *)
\* the chunks in the pool that were cut from file f
ChunksOf(f) == SelectSeq(noises, LAMBDA c : Range(c) \subseteq Range(Samples(f)))
RECURSIVE Concat(_)
Concat(ss) == IF ss = <<>> THEN <<>> ELSE Head(ss) \o Concat(Tail(ss))
\* the loop over noise_paths has dealt with file f
Loaded(f) == (pc = "load_noise" /\ f < path_idx)
             \/ pc \notin {"noise_paths", "load_noise", "aborted"}
Matching(f) == noise_files[f].rate = SAMPLING_RATE

\* C7 (as stated): loading a file at the target rate, of any sample count,
\* emits floor(sample_count / SAMPLING_RATE) chunks of SAMPLING_RATE samples
\* whose concatenation is the start of the source.
C7_NoiseChunking ==
  /\ error # "InvalidArgumentError"
  /\ \A f \in DOMAIN noise_files :
        Loaded(f) /\ Matching(f) =>
           /\ Len(ChunksOf(f)) = noise_files[f].len \div SAMPLING_RATE
           /\ \A c \in DOMAIN ChunksOf(f) : Len(ChunksOf(f)[c]) = SAMPLING_RATE
           /\ Concat(ChunksOf(f)) =
                SubSeq(Samples(f), 1, (noise_files[f].len \div SAMPLING_RATE) * SAMPLING_RATE)

\* the chunks of the matching files, file after file
RECURSIVE PoolOf(_)
PoolOf(f) ==
  IF f = 0 THEN <<>>
  ELSE PoolOf(f - 1) \o
       (IF Matching(f)
          THEN [c \in 1..(noise_files[f].len \div SAMPLING_RATE) |->
                  SubSeq(Samples(f), (c - 1) * SAMPLING_RATE + 1, c * SAMPLING_RATE)]
          ELSE <<>>)

\* C8 (as stated): with at least one noise file, whatever files have the wrong
\* rate, the run is not aborted, the pool is the chunks of the matching files
\* and the run goes on to training.
C8_MismatchRecoverable ==
  noise_files # <<>> =>
     /\ pc # "aborted"
     /\ pc \notin {"noise_paths", "load_noise", "stack"} => noises = PoolOf(Len(noise_files))

\* C9: with no noise file the run is aborted by the RuntimeError of the
\* listing step: no pool, no clip list, no split, no training.
C9_NoNoiseIsFatal ==
  noise_files = <<>> =>
     /\ pc \in {"noise_paths", "aborted"}
     /\ pc = "aborted" => error = "RuntimeError"
     /\ noises = <<>>
     /\ audio_paths = <<>>
     /\ train_audio_paths = <<>>
     /\ valid_audio_paths = <<>>
     /\ status = "Built"
     /\ epoch = 0

\* a run without noise files, stopped by the RuntimeError
C9_Witness ==
  /\ noise_files = <<>>
  /\ pc = "aborted"
  /\ error = "RuntimeError"
  /\ status = "Built"

(* ======================= noise injection properties ======================= *)
\* C10 (as stated): the injected noise term peaks at SCALE * max|W| and the
\* mix stays within max|W| + SCALE * max|W|.
C10_AmplitudeNormalizing ==
  pc = "mixed" =>
    \A b \in DOMAIN audio :
       LET w == audio[b]
           n == noises[tf_rnd[b]]
       IN /\ mixed[b].den # 0
          /\ PeakAbs(n) * Abs(reduce_max(w)) = PeakAbs(w) * Abs(reduce_max(n))
          /\ \A i \in DOMAIN w :
                Abs(mixed[b].num[i]) * SCALE_DEN
                   <= PeakAbs(w) * (SCALE_DEN + SCALE_NUM) * Abs(mixed[b].den)
(* ---------------- the stages a batch passes before the classifier ---------------- *)

\* C11 as stated: every batch handed to the classifier, from the training and
\* from the validation stream alike, in the epochs and in the evaluation after
\* training, has passed noise injection and then the spectral transform
C11_NoiseThenFftOnEveryStream ==
  fed # <<>> => fed.stages = <<"add_noise", "audio_to_fft">>

\* C11 amended: a batch of the training stream has passed noise injection and
\* then the spectral transform, in this order; a batch of the validation
\* stream, in the validation pass of an epoch and in the evaluation after
\* training, has passed the spectral transform only and carries no noise; a
\* batch of the demo stream has passed noise injection in the stream and the
\* spectral transform in the demo loop
C11_NoiseThenFftOnTrainOnly ==
  fed # <<>> =>
    /\ fed.ds = "train" => fed.stages = <<"add_noise", "audio_to_fft">>
    /\ fed.ds = "valid" => fed.stages = <<"audio_to_fft">>
    /\ fed.ds = "test" => fed.stages = <<"add_noise", "audio_to_fft">>

\* the evaluation after training has been handed a batch without noise
C11_Witness ==
  /\ fed # <<>>
  /\ fed.by = "eval_pass"
  /\ status \in Terminal
  /\ fed.stages = <<"audio_to_fft">>

(* ---------------- waveforms and labels in a batch ---------------- *)
Aligned(rows) == \A row \in BagToSet(rows) : <<row.clip, row.label>> \in clips

\* C12: whatever the order in which the parallel calls of path_to_audio and of
\* the per-batch maps finish, every batch consumed by a training step (and by
\* a validation step, the evaluation and the demo) holds at each index a
\* waveform decoded from the clip whose label is at that index; the same holds
\* of every row still on its way through the stream
C12_BatchesAligned ==
  /\ \A row \in buffer : <<row.clip, row.label>> \in clips
  /\ Aligned(batching)
  /\ \A i \in DOMAIN mapping : Aligned(mapping[i].items)
  /\ fed # <<>> => Aligned(fed.items)

\* a training step has consumed a batch with clips of both speakers while a
\* later call of path_to_audio has returned before an earlier one and another
\* batch is on its way through its maps
C12_Witness ==
  /\ fed # <<>>
  /\ fed.by = "train_pass"
  /\ {row.label : row \in BagToSet(fed.items)} = {0, 1}
  /\ Len(decoding) >= 2
  /\ ~decoding[1].done
  /\ decoding[2].done
  /\ mapping # <<>>

(* ---------------- the split and the passes over the streams ---------------- *)
\* every listed clip is in exactly one of the two subsets
SplitIsPartition ==
  /\ Range(train_audio_paths) \cap Range(valid_audio_paths) = {}
  /\ Range(train_audio_paths) \cup Range(valid_audio_paths) = Range(audio_paths)
  /\ Len(train_audio_paths) + Len(valid_audio_paths) = Cardinality(Range(audio_paths))

\* what a pass has handed to the classifier so far: clips of the subset of its
\* stream, none of them twice, and all of them once the stream is used up
PassYieldsSubset ==
  /\ seen \subseteq Range(PathsOf(DsOf(phase)))
  /\ seenCount = Cardinality(seen)
  /\ phase \in {"train_pass", "valid_pass", "eval_pass"} /\ Exhausted(DsOf(phase))
       => seen = Range(PathsOf(DsOf(phase)))

\* C13: the training and the validation set are disjoint and together cover
\* the listed clips; in every epoch, in the evaluation after training and in
\* the demo the shuffle buffers change the order of iteration only: a pass
\* yields clips of the subset of its stream, each at most once and, when the
\* pass is a full one, each exactly once; and no step after the split changes
\* the subset a clip is in
C13_SplitIsImmutablePartition ==
  /\ [](SplitIsPartition /\ PassYieldsSubset)
  /\ [][<<train_audio_paths, train_labels, valid_audio_paths, valid_labels>>'
          = <<train_audio_paths, train_labels, valid_audio_paths, valid_labels>>]_vars

\* the training pass of a later epoch is complete: the buffer is smaller than
\* the training set, the clip delivered last is not the last of the list, and
\* the pass has yielded the whole training set
C13_Witness ==
  /\ phase = "train_pass"
  /\ epoch >= 1
  /\ Exhausted("train")
  /\ BufferOf("train") < Len(train_audio_paths)
  /\ fed # <<>>
  /\ train_audio_paths[Len(train_audio_paths)] \notin {row.clip : row \in BagToSet(fed.items)}
  /\ seen = Range(train_audio_paths)
  /\ seenCount = Len(train_audio_paths)
  /\ valid_audio_paths # <<>>

====
